---------------------------- MODULE Spec2Model ----------------------------
(***************************************************************************)
(* A model of morgan-json (src/index.js): the request logger middleware,   *)
(* its format compiler, the token/format table and the buffered stream.    *)
(*                                                                         *)
(* JavaScript values are records tagged with their type.  A template and   *)
(* the JavaScript source compile() builds from it are sequences of         *)
(* one-character strings, so that quoting and escaping are computed, not   *)
(* assumed; every other JavaScript string is a TLA+ string.                *)
(***************************************************************************)
EXTENDS Integers, Sequences, FiniteSets, TLC

(***************************************************************************)
(* Bounds of the model.                                                     *)
(***************************************************************************)
\* Longest template drawn for the compiler's own specification.
MaxLen == 3
\* Request/response cycles through one middleware.
NCycles == 2
\* How often each of "finish" and "close" may be emitted on one response.
MaxFire == 2
\* The latest reading of the wall clock, in milliseconds.
MaxTime == 1

(***************************************************************************)
(* JavaScript values.                                                       *)
(***************************************************************************)
Undefined == [t |-> "undefined"]

Null == [t |-> "null"]

Str(s) == [t |-> "string", s |-> s]

Num(n) == [t |-> "number", n |-> n]

Bool(b) == [t |-> "boolean", b |-> b]

\* A function value, named by what it does; `Call` and `CallFormat` run it.
Fn(f) == [t |-> "function", f |-> f]

\* A host-supplied extractor that returns the value v whatever it is given.
Returning(v) == [t |-> "function", f |-> "returning", v |-> v]

\* The module object itself (`exports`, and `this` inside its methods): it is
\* the function `logger`, src/index.js:30.
ExportsObject == [t |-> "function", f |-> "logger"]

IsFunction(v) == v.t = "function"

\* ToBoolean: what `x || y` and `if (x)` test.
Truthy(v) ==
    CASE v.t = "undefined" -> FALSE
      [] v.t = "null" -> FALSE
      [] v.t = "string" -> v.s # ""
      [] v.t = "number" -> v.n # 0
      [] v.t = "boolean" -> v.b
      [] OTHER -> TRUE

Digit(d) ==
    CASE d = 0 -> "0" [] d = 1 -> "1" [] d = 2 -> "2" [] d = 3 -> "3" [] d = 4 -> "4"
      [] d = 5 -> "5" [] d = 6 -> "6" [] d = 7 -> "7" [] d = 8 -> "8" [] d = 9 -> "9"

RECURSIVE NatToString(_)
NatToString(n) ==
    IF n < 10 THEN Digit(n) ELSE NatToString(n \div 10) \o Digit(n % 10)

\* ToString, as string concatenation with `+` applies it.
ToStr(v) ==
    CASE v.t = "undefined" -> "undefined"
      [] v.t = "null" -> "null"
      [] v.t = "string" -> v.s
      [] v.t = "number" -> IF v.n < 0 THEN "-" \o NatToString(-v.n) ELSE NatToString(v.n)
      [] v.t = "boolean" -> IF v.b THEN "true" ELSE "false"
      [] v.t = "function" -> "function () { [code] }"
      [] OTHER -> "[object Object]"

\* x || y
OrElse(x, y) == IF Truthy(x) THEN x ELSE y

\* The characters of a string, joined (halving keeps the recursion shallow).
RECURSIVE Join(_)
Join(cs) ==
    IF cs = <<>> THEN ""
    ELSE IF Len(cs) = 1 THEN cs[1]
    ELSE LET half == Len(cs) \div 2
         IN  Join(SubSeq(cs, 1, half)) \o Join(SubSeq(cs, half + 1, Len(cs)))

Min(S) == CHOOSE x \in S : \A y \in S : x <= y

(***************************************************************************)
(* compile(fmt), src/index.js:123-129.                                      *)
(***************************************************************************)
QUOTE == "\""

BSLASH == "\\"

LF == "\n"

\* The characters the class [-\w] matches.
NameChars ==
    {"a", "b", "c", "d", "e", "f", "g", "h", "i", "j", "k", "l", "m", "n", "o", "p", "q",
     "r", "s", "t", "u", "v", "w", "x", "y", "z", "A", "B", "C", "D", "E", "F", "G", "H",
     "I", "J", "K", "L", "M", "N", "O", "P", "Q", "R", "S", "T", "U", "V", "W", "X", "Y",
     "Z", "0", "1", "2", "3", "4", "5", "6", "7", "8", "9", "_", "-"}

\* fmt.replace(/"/g, '\\"'): every double quote gets a backslash in front.
RECURSIVE EscapeQuotes(_)
EscapeQuotes(cs) ==
    IF cs = <<>> THEN <<>>
    ELSE IF Len(cs) = 1 THEN (IF cs[1] = QUOTE THEN <<BSLASH, QUOTE>> ELSE cs)
    ELSE LET half == Len(cs) \div 2
         IN  EscapeQuotes(SubSeq(cs, 1, half)) \o EscapeQuotes(SubSeq(cs, half + 1, Len(cs)))

\* The last index of the longest run of characters of `set` that starts at i
\* (i - 1 when cs[i] is not in the set).
RunEnd(cs, i, set) ==
    Min({j \in i..(Len(cs) + 1) : j > Len(cs) \/ cs[j] \notin set}) - 1

\* The first index >= i that holds a "]", or 0: where [^\]]+ must stop.
NextBracket(cs, i) ==
    LET at == {j \in i..Len(cs) : cs[j] = "]"}
    IN  IF at = {} THEN 0 ELSE Min(at)

\* One match of /:([-\w]{2,})(?:\[([^\]]+)\])?/ anchored at i.  The name is the
\* longest run of name characters; the bracketed group takes part only when a
\* "[" follows the name, then at least one character, then a "]".
MatchAt(cs, i) ==
    LET nameEnd == RunEnd(cs, i + 1, NameChars)
        close == IF nameEnd + 1 <= Len(cs) /\ cs[nameEnd + 1] = "["
                 THEN NextBracket(cs, nameEnd + 2) ELSE 0
        hasArg == close > nameEnd + 2
    IN  IF i <= Len(cs) /\ cs[i] = ":" /\ nameEnd >= i + 2
        THEN [ok |-> TRUE,
              name |-> SubSeq(cs, i + 1, nameEnd),
              hasArg |-> hasArg,
              arg |-> IF hasArg THEN SubSeq(cs, nameEnd + 2, close - 1) ELSE <<>>,
              end |-> IF hasArg THEN close ELSE nameEnd]
        ELSE [ok |-> FALSE]

\* Whether the template holds a token reference at all.
HasTokenReference(cs) == \E i \in 1..Len(cs) : MatchAt(cs, i).ok

\* The text String(undefined), which `"' + arg + '"` splices in when the
\* bracketed group took no part in the match.
UndefinedText ==
    <<"u", "n", "d", "e", "f", "i", "n", "e", "d">>

\* '  return "'
SrcHead ==
    <<" ", " ", "r", "e", "t", "u", "r", "n", " ", "\"">>

\* '"\n    + (tokens["'
SrcLookup ==
    <<"\"", "\n", " ", " ", " ", " ", "+", " ", "(", "t", "o", "k", "e", "n", "s", "[", "\"">>

\* '"](req, res, "'
SrcCall ==
    <<"\"", "]", "(", "r", "e", "q", ",", " ", "r", "e", "s", ",", " ", "\"">>

\* '") || "-") + "'
SrcDefault ==
    <<"\"", ")", " ", "|", "|", " ", "\"", "-", "\"", ")", " ", "+", " ", "\"">>

\* '";'
SrcTail ==
    <<"\"", ";">>

\* The replacer: the source text one token reference turns into.
Replacement(m) ==
    SrcLookup \o m.name \o SrcCall
        \o (IF m.hasArg THEN m.arg ELSE UndefinedText) \o SrcDefault

\* fmt.replace(/:([-\w]{2,})(?:\[([^\]]+)\])?/g, replacer), from i on: matches
\* are taken left to right, each search resuming after the previous match,
\* and the text between the matches is kept.
RECURSIVE ReplaceTokens(_, _)
ReplaceTokens(cs, i) ==
    LET starts == {j \in i..Len(cs) : MatchAt(cs, j).ok}
        m == MatchAt(cs, Min(starts))
    IN  IF starts = {} THEN SubSeq(cs, i, Len(cs))
        ELSE SubSeq(cs, i, Min(starts) - 1) \o Replacement(m)
                 \o ReplaceTokens(cs, m.end + 1)

\* The body of the function compile() hands to `new Function`.
FunctionBody(fmt) == SrcHead \o ReplaceTokens(EscapeQuotes(fmt), 1) \o SrcTail


(***************************************************************************)
(* new Function('tokens, req, res', js): the source is parsed when the      *)
(* function is made.  Recognised are the sources compile() means to build,  *)
(*     return "lit" + (tokens["name"](req, res, "arg") || "-") + "lit" ... ; *)
(* with every string literal read by the rules of a JavaScript string       *)
(* literal.  A source outside that shape is a SyntaxError: a literal that   *)
(* closes early or late leaves a quote of SrcLookup or SrcTail opening a    *)
(* literal that a line break ends.  (That needs a template without "/" and *)
(* "`", which could hide the rest in a comment or a template literal.)      *)
(***************************************************************************)
Normal(v) == [threw |-> FALSE, v |-> v]

Throw(e) == [threw |-> TRUE, e |-> e]

HexDigits ==
    {"0", "1", "2", "3", "4", "5", "6", "7", "8", "9",
     "a", "b", "c", "d", "e", "f", "A", "B", "C", "D", "E", "F"}

OctalDigits == {"0", "1", "2", "3", "4", "5", "6", "7"}

\* The escape sequence whose backslash is at p: [ok, value, next].  A
\* character escape stands for itself unless it is one of the named escapes;
\* a line break after the backslash continues the line and adds nothing.  The
\* characters only a code names (\b, \v, \0, \x.., \u...., octal) are written
\* as the escape's own text, which differs from every character it escapes.
EscapeAt(js, p) ==
    LET e == js[p + 1]
        hexEnd == RunEnd(js, p + 2, HexDigits)
        octEnd == RunEnd(js, p + 1, OctalDigits)
        octLast == IF e \in {"0", "1", "2", "3"} THEN IF octEnd > p + 3 THEN p + 3 ELSE octEnd
                   ELSE IF octEnd > p + 2 THEN p + 2 ELSE octEnd
    IN  IF p + 1 > Len(js) THEN [ok |-> FALSE]
        ELSE CASE e = "n" -> [ok |-> TRUE, value |-> <<LF>>, next |-> p + 2]
               [] e = "t" -> [ok |-> TRUE, value |-> <<"\t">>, next |-> p + 2]
               [] e = "r" -> [ok |-> TRUE, value |-> <<"\r">>, next |-> p + 2]
               [] e = "f" -> [ok |-> TRUE, value |-> <<"\f">>, next |-> p + 2]
               [] e \in {LF, "\r"} -> [ok |-> TRUE, value |-> <<>>, next |-> p + 2]
               [] e \in {"b", "v"} ->
                    [ok |-> TRUE, value |-> <<BSLASH \o e>>, next |-> p + 2]
               [] e = "x" ->
                    IF hexEnd >= p + 3
                    THEN [ok |-> TRUE, value |-> <<Join(SubSeq(js, p, p + 3))>>,
                          next |-> p + 4]
                    ELSE [ok |-> FALSE]
               [] e = "u" ->
                    IF hexEnd >= p + 5
                    THEN [ok |-> TRUE, value |-> <<Join(SubSeq(js, p, p + 5))>>,
                          next |-> p + 6]
                    ELSE [ok |-> FALSE]
               [] e \in OctalDigits ->
                    [ok |-> TRUE, value |-> <<Join(SubSeq(js, p, octLast))>>,
                     next |-> octLast + 1]
               [] OTHER -> [ok |-> TRUE, value |-> <<e>>, next |-> p + 2]

\* The rest of a string literal whose opening quote has been read: up to the
\* closing quote.  A line break, or the end of the source, inside the literal
\* is a SyntaxError.
RECURSIVE ScanString(_, _, _)
ScanString(js, p, acc) ==
    IF p > Len(js) THEN [ok |-> FALSE]
    ELSE IF js[p] = QUOTE THEN [ok |-> TRUE, value |-> acc, next |-> p + 1]
    ELSE IF js[p] \in {LF, "\r"} THEN [ok |-> FALSE]
    ELSE IF js[p] = BSLASH
         THEN LET Escaped(e) ==
                      IF e.ok THEN ScanString(js, e.next, acc \o e.value)
                      ELSE [ok |-> FALSE]
              IN  Escaped(EscapeAt(js, p))
    ELSE ScanString(js, p + 1, Append(acc, js[p]))

\* A string literal at p: [ok, value, next], the value as its characters.
StringAt(js, p) ==
    IF p <= Len(js) /\ js[p] = QUOTE THEN ScanString(js, p + 1, <<>>) ELSE [ok |-> FALSE]

\* Whether the code text k stands at p.
CodeAt(js, p, k) == p + Len(k) - 1 <= Len(js) /\ SubSeq(js, p, p + Len(k) - 1) = k

\* The code between the string literals of a well-formed source.
CodeReturn == SubSeq(SrcHead, 1, Len(SrcHead) - 1)

CodeLookup == SubSeq(SrcLookup, 2, Len(SrcLookup) - 1)

CodeCall == SubSeq(SrcCall, 2, Len(SrcCall) - 1)

CodeOr == SubSeq(SrcDefault, 2, 6)

CodePlus == SubSeq(SrcDefault, 10, 13)

CodeEnd == SubSeq(SrcTail, 2, 2)

\* One `+ (tokens["name"](req, res, "arg") || "-") + "lit"` at p.
\* A reading of the source in progress: [ok, next, values], the values being
\* those of the string literals read so far.
ReadCode(r, js, k) ==
    IF r.ok /\ CodeAt(js, r.next, k) THEN [r EXCEPT !.next = @ + Len(k)]
    ELSE [ok |-> FALSE]

ReadString(r, js) ==
    LET Read(lit) ==
            IF lit.ok
            THEN [ok |-> TRUE, next |-> lit.next, values |-> Append(r.values, lit.value)]
            ELSE [ok |-> FALSE]
    IN  IF r.ok THEN Read(StringAt(js, r.next)) ELSE [ok |-> FALSE]

TermAt(js, p) ==
    LET Term(r) ==
            IF r.ok
            THEN [ok |-> TRUE,
                  parts |-> <<[k |-> "token", name |-> Join(r.values[1]),
                               arg |-> r.values[2], dflt |-> Join(r.values[3])],
                              [k |-> "literal", s |-> Join(r.values[4])]>>,
                  next |-> r.next]
            ELSE [ok |-> FALSE]
        start == [ok |-> TRUE, next |-> p, values |-> <<>>]
    IN  Term(ReadString(ReadCode(
             ReadString(ReadCode(
             ReadString(ReadCode(
             ReadString(ReadCode(start, js, CodeLookup), js),
                 js, CodeCall), js),
                 js, CodeOr), js),
                 js, CodePlus), js))

RECURSIVE TermsFrom(_, _, _)
TermsFrom(js, p, parts) ==
    LET More(t) ==
            IF t.ok THEN TermsFrom(js, t.next, parts \o t.parts) ELSE [ok |-> FALSE]
    IN  IF CodeAt(js, p, CodeEnd) /\ p + Len(CodeEnd) - 1 = Len(js)
        THEN [ok |-> TRUE, parts |-> parts]
        ELSE More(TermAt(js, p))

\* new Function('tokens, req, res', js): the function, or a SyntaxError.
NewFunction(js) ==
    LET Made(rest) ==
            IF rest.ok THEN Normal([t |-> "function", f |-> "compiled", code |-> rest.parts])
            ELSE Throw("SyntaxError")
        Rest(first) ==
            IF first.ok
            THEN Made(TermsFrom(js, first.next,
                                <<[k |-> "literal", s |-> Join(first.value)]>>))
            ELSE Throw("SyntaxError")
    IN  IF CodeAt(js, 1, CodeReturn) THEN Rest(StringAt(js, Len(CodeReturn) + 1))
        ELSE Throw("SyntaxError")

\* compile(fmt)
compile(fmt) == NewFunction(FunctionBody(fmt))


(***************************************************************************)
(* Requests and responses, as far as the logger reads and writes them.      *)
(***************************************************************************)
\* A header store: header names to values; a name it lacks reads undefined.
NoHeaders == [h \in {} |-> Undefined]

Get(obj, key) == IF key \in DOMAIN obj THEN obj[key] ELSE Undefined

\* A request as the server hands it over.  `socketAddress` is
\* req.socket.remoteAddress (these sockets have no inner `socket`).
GetRequest ==
    [method |-> Str("GET"), url |-> Str("/a"), originalUrl |-> Undefined,
     httpVersionMajor |-> Num(1), httpVersionMinor |-> Num(1),
     headers |-> ("user-agent" :> Str("ua")),
     ip |-> Undefined, body |-> Undefined,
     socketAddress |-> Str("10.0.0.1"),
     _startTime |-> Undefined, _remoteAddress |-> Undefined]

PostRequest ==
    [GetRequest EXCEPT !.method = Str("POST"), !.originalUrl = Str("/api/a"),
                       !.headers = ("referer" :> Str("http://r/")), !.body = Num(7)]

Requests == {GetRequest, PostRequest}

\* A fresh response: status 200, nothing sent, no header store, `end` its own.
\* `sent` keeps the chunks its original end operation was called with.
NewResponse ==
    [statusCode |-> Num(200), headersSent |-> FALSE, finished |-> FALSE,
     _headers |-> NoHeaders, _body |-> Undefined, end |-> "original", sent |-> <<>>]

\* The objects themselves, where one is passed as a value.
RequestObject == [t |-> "object", o |-> "req"]

ResponseObject == [t |-> "object", o |-> "res"]

(***************************************************************************)
(* The token extractors, src/index.js:208-309.                              *)
(***************************************************************************)
LowerChar(c) ==
    CASE c = "A" -> "a" [] c = "B" -> "b" [] c = "C" -> "c" [] c = "D" -> "d"
      [] c = "E" -> "e" [] c = "F" -> "f" [] c = "G" -> "g" [] c = "H" -> "h"
      [] c = "I" -> "i" [] c = "J" -> "j" [] c = "K" -> "k" [] c = "L" -> "l"
      [] c = "M" -> "m" [] c = "N" -> "n" [] c = "O" -> "o" [] c = "P" -> "p"
      [] c = "Q" -> "q" [] c = "R" -> "r" [] c = "S" -> "s" [] c = "T" -> "t"
      [] c = "U" -> "u" [] c = "V" -> "v" [] c = "W" -> "w" [] c = "X" -> "x"
      [] c = "Y" -> "y" [] c = "Z" -> "z" [] OTHER -> c

\* field.toLowerCase()
toLowerCase(cs) == Join([i \in 1..Len(cs) |-> LowerChar(cs[i])])

TwoDigits(n) == IF n < 10 THEN "0" \o Digit(n) ELSE NatToString(n)

\* new Date(now).toUTCString(), for the first hour of the epoch.
toUTCString(now) ==
    "Thu, 01 Jan 1970 00:" \o TwoDigits((now \div 60000) % 60) \o ":"
        \o TwoDigits((now \div 1000) % 60) \o " GMT"

\* JSON.stringify of the request bodies drawn here: undefined stays undefined,
\* null and numbers are their own text.
JSONstringify(v) == IF v.t = "undefined" THEN Undefined ELSE Str(ToStr(v))

\* The characters escape() leaves as they are.
EscapeSafe == (NameChars \ {"-"}) \cup {"@", "*", "_", "+", "-", ".", "/"}

\* escape() of one character outside EscapeSafe: "%" and its code in hex.
EscapeCode(c) ==
    CASE c = " " -> "%20" [] c = "!" -> "%21" [] c = QUOTE -> "%22" [] c = "#" -> "%23"
      [] c = "$" -> "%24" [] c = "%" -> "%25" [] c = "&" -> "%26" [] c = "'" -> "%27"
      [] c = "(" -> "%28" [] c = ")" -> "%29" [] c = "," -> "%2C" [] c = ":" -> "%3A"
      [] c = ";" -> "%3B" [] c = "<" -> "%3C" [] c = "=" -> "%3D" [] c = ">" -> "%3E"
      [] c = "?" -> "%3F" [] c = "[" -> "%5B" [] c = BSLASH -> "%5C" [] c = "]" -> "%5D"
      [] c = "^" -> "%5E" [] c = "{" -> "%7B" [] c = "|" -> "%7C"
      [] c = "}" -> "%7D" [] c = "~" -> "%7E" [] c = LF -> "%0A" [] c = "\r" -> "%0D"
      [] c = "\t" -> "%09"

\* escape(cs)
escape(cs) ==
    Join([i \in 1..Len(cs) |-> IF cs[i] \in EscapeSafe THEN cs[i] ELSE EscapeCode(cs[i])])

\* A string kept with its characters (`cs`), for the code that scans it: a
\* template, a response body chunk.
Text(cs) == [t |-> "string", s |-> Join(cs), cs |-> cs]

\* escape(x): of the characters of String(x).
escapeValue(v) ==
    Str(escape(IF v.t = "string" THEN v.cs ELSE UndefinedText))

\* A status token that does not look at headersSent: a fault the property
\* of the moment of rendering must catch.
statusUnconditional(res) == res.statusCode

\* A status token that never has a value: a fault the example line must catch.
statusMissing(res) == Null

\* The status token, src/index.js:240-242.
status(res) == IF res.headersSent THEN res.statusCode ELSE Null

\* A remote-addr token that reads the socket when it is called: a fault the
\* property of the captured address must catch.
remoteAddrNow(req) == IF Truthy(req.ip) THEN req.ip ELSE req.socketAddress

\* The remote-addr token, src/index.js:256-262.
remoteAddr(req) ==
    IF Truthy(req.ip) THEN req.ip
    ELSE IF Truthy(req._remoteAddress) THEN req._remoteAddress
    ELSE req.socketAddress

\* What calling an extractor does: a value, or a throw.  `field` is the
\* third argument, a string, as its characters.
Extract(f, req, res, field, now) ==
    CASE f = "url" -> Normal(OrElse(req.originalUrl, req.url))
      [] f = "method" -> Normal(req.method)
      [] f = "response-time" -> Normal(Str(ToStr(Num(now - req._startTime.n))))
      [] f = "date" -> Normal(Str(toUTCString(now)))
      [] f = "status" -> Normal(status(res))
      [] f = "referrer" ->
           Normal(OrElse(Get(req.headers, "referer"), Get(req.headers, "referrer")))
      [] f = "remote-addr" -> Normal(remoteAddr(req))
      [] f = "http-version" ->
           Normal(Str(ToStr(req.httpVersionMajor) \o "." \o ToStr(req.httpVersionMinor)))
      [] f = "user-agent" -> Normal(Get(req.headers, "user-agent"))
      [] f = "req" -> Normal(Get(req.headers, toLowerCase(field)))
      [] f = "res" -> Normal(Get(res._headers, toLowerCase(field)))
      [] f = "payload" -> Normal(OrElse(JSONstringify(req.body), Str("")))
      [] f = "res-body" -> Normal(OrElse(escapeValue(res._body), Str("")))


(***************************************************************************)
(* The table of tokens and formats: the properties of `exports`,            *)
(* src/index.js:141-309.  Tokens and formats share it.  (The properties a   *)
(* function object inherits, such as `call` or `name`, are left out.)       *)
(***************************************************************************)
\* exports.format('default', '...')
DefaultFormat ==
    <<"{", "\"", "a", "d", "d", "r", "e", "s", "s", "\"", ":", " ", "\"", ":", "r", "e", "m",
      "o", "t", "e", "-", "a", "d", "d", "r", "\"", ",", " ", "\"", "d", "a", "t", "e", "\"",
      ":", " ", "\"", ":", "d", "a", "t", "e", "\"", ",", " ", "\"", "m", "e", "t", "h", "o",
      "d", "\"", ":", " ", "\"", ":", "m", "e", "t", "h", "o", "d", "\"", ",", " ", "\"", "u",
      "r", "l", "\"", ":", " ", "\"", ":", "u", "r", "l", "\"", ",", " ", "\"", "h", "t", "t",
      "p", "V", "e", "r", "s", "i", "o", "n", "\"", ":", " ", "\"", "H", "T", "T", "P", "/", ":",
      "h", "t", "t", "p", "-", "v", "e", "r", "s", "i", "o", "n", "\"", ",", " ", "\"", "s", "t",
      "a", "t", "u", "s", "\"", ":", " ", "\"", ":", "s", "t", "a", "t", "u", "s", "\"", ",",
      " ", "\"", "c", "o", "n", "t", "e", "n", "t", "L", "e", "n", "g", "t", "h", "\"", ":", " ",
      "\"", ":", "r", "e", "s", "[", "c", "o", "n", "t", "e", "n", "t", "-", "l", "e", "n", "g",
      "t", "h", "]", "\"", ",", " ", "\"", "r", "e", "f", "e", "r", "r", "e", "r", "\"", ":",
      " ", "\"", ":", "r", "e", "f", "e", "r", "r", "e", "r", "\"", ",", " ", "\"", "u", "s",
      "e", "r", "A", "g", "e", "n", "t", "\"", ":", " ", "\"", ":", "u", "s", "e", "r", "-", "a",
      "g", "e", "n", "t", "\"", "}">>

\* exports.format('short', '...')
ShortFormat ==
    <<"{", "\"", "a", "d", "d", "r", "e", "s", "s", "\"", ":", " ", "\"", ":", "r", "e", "m",
      "o", "t", "e", "-", "a", "d", "d", "r", "\"", ",", " ", "\"", "m", "e", "t", "h", "o", "d",
      "\"", ":", " ", "\"", ":", "m", "e", "t", "h", "o", "d", "\"", ",", " ", "\"", "u", "r",
      "l", "\"", ":", " ", "\"", ":", "u", "r", "l", "\"", ",", " ", "\"", "h", "t", "t", "p",
      "V", "e", "r", "s", "i", "o", "n", "\"", ":", " ", "\"", "H", "T", "T", "P", "/", ":", "h",
      "t", "t", "p", "-", "v", "e", "r", "s", "i", "o", "n", "\"", ",", " ", "\"", "s", "t", "a",
      "t", "u", "s", "\"", ":", " ", "\"", ":", "s", "t", "a", "t", "u", "s", "\"", ",", " ",
      "\"", "c", "o", "n", "t", "e", "n", "t", "L", "e", "n", "g", "t", "h", "\"", ":", " ",
      "\"", ":", "r", "e", "s", "[", "c", "o", "n", "t", "e", "n", "t", "-", "l", "e", "n", "g",
      "t", "h", "]", "\"", ",", " ", "\"", "t", "i", "m", "e", "\"", ":", " ", "\"", ":", "r",
      "e", "s", "p", "o", "n", "s", "e", "-", "t", "i", "m", "e", " ", "m", "s", "\"", ",", " ",
      "\"", "p", "a", "y", "l", "o", "a", "d", "\"", ":", " ", "\"", ":", "p", "a", "y", "l",
      "o", "a", "d", "\"", ",", " ", "\"", "r", "e", "s", "p", "o", "n", "s", "e", "\"", ":",
      " ", "\"", ":", "r", "e", "s", "-", "b", "o", "d", "y", "\"", "}">>

\* exports.format('tiny', '...')
TinyFormat ==
    <<"{", "\"", "m", "e", "t", "h", "o", "d", "\"", ":", " ", "\"", ":", "m", "e", "t", "h",
      "o", "d", "\"", ",", " ", "\"", "u", "r", "l", "\"", ":", " ", "\"", ":", "u", "r", "l",
      "\"", ",", " ", "\"", "s", "t", "a", "t", "u", "s", "\"", ",", " ", "\"", ":", "s", "t",
      "a", "t", "u", "s", "\"", ",", " ", "\"", "c", "o", "n", "t", "e", "n", "t", "L", "e", "n",
      "g", "t", "h", "\"", ":", " ", "\"", ":", "r", "e", "s", "[", "c", "o", "n", "t", "e", "n",
      "t", "-", "l", "e", "n", "g", "t", "h", "]", "\"", ",", " ", "\"", "t", "i", "m", "e",
      "\"", ",", " ", "\"", ":", "r", "e", "s", "p", "o", "n", "s", "e", "-", "t", "i", "m", "e",
      " ", "m", "s", "\"", "}">>

TokenNames ==
    {"url", "method", "response-time", "date", "status", "referrer", "remote-addr",
     "http-version", "user-agent", "req", "res", "payload", "res-body"}

\* exports[name] = value
Define(table, name, value) == (name :> value) @@ table

\* An exports.token that files the function under another name: a fault
\* the last-registration property must catch.
tokenMisfiled(table, name, fn) == Define(table, name \o "_", fn)

\* exports.token(name, fn)
token(table, name, fn) == Define(table, name, fn)

\* exports.format(name, fmt)
format(table, name, fmt) == Define(table, name, fmt)

\* `exports` once the module is loaded.
ModuleExports ==
    LET methods == ("token" :> Fn("token")) @@ ("format" :> Fn("format"))
        formats == format(format(format(format(methods,
                       "default", Text(DefaultFormat)),
                       "short", Text(ShortFormat)),
                       "tiny", Text(TinyFormat)),
                       "dev", Fn("dev"))
    IN  [n \in TokenNames |-> Fn(n)] @@ formats

(***************************************************************************)
(* Calling the functions of the table.  A call ends in a value or a throw,  *)
(* and leaves a table (exports.token and exports.format write to it).       *)
(***************************************************************************)
Returned(v, table) == [threw |-> FALSE, v |-> v, table |-> table]

Thrown(e, table) == [threw |-> TRUE, e |-> e, table |-> table]

\* A host-supplied function that throws.
Throwing == Fn("throwing")

\* A host-supplied extractor that shows the argument it is given:
\* function (req, res, field) { return '<' + field + '>' }
Field == Fn("field")

\* tokens[name](req, res, field) for a function value fn of the table.
Call(fn, table, req, res, field, now) ==
    CASE fn.f \in TokenNames ->
           LET Done(r) == IF r.threw THEN Thrown(r.e, table) ELSE Returned(r.v, table)
           IN  Done(Extract(fn.f, req, res, field, now))
      [] fn.f = "returning" -> Returned(fn.v, table)
      [] fn.f = "throwing" -> Thrown("Error", table)
      [] fn.f = "field" -> Returned(Str("<" \o Join(field) \o ">"), table)
      \* exports.token / exports.format called as a token: name is the request,
      \* fn the response; it stores under String(req) and returns `this`.
      [] fn.f \in {"token", "format"} ->
           Returned(ExportsObject, Define(table, ToStr(RequestObject), ResponseObject))
      \* the dev format called as a token: its `res` is the string, and
      \* res.getHeader is not a function.
      [] fn.f = "dev" -> Thrown("TypeError", table)

\* (value || "-"), src/index.js:126.
OrDash(v, dflt) == OrElse(v, Str(dflt))

\* Running a compiled function from its part i on: the literals and the
\* token values are concatenated left to right.  tokens[name] that is no
\* function throws a TypeError, and a throwing extractor's throw goes through.
RECURSIVE Evaluate(_, _, _, _, _, _, _)
Evaluate(code, i, acc, table, req, res, now) ==
    IF i > Len(code) THEN Returned(Str(acc), table)
    ELSE IF code[i].k = "literal"
         THEN Evaluate(code, i + 1, acc \o code[i].s, table, req, res, now)
    ELSE LET Called(r) ==
                 IF r.threw THEN r
                 ELSE Evaluate(code, i + 1, acc \o ToStr(OrDash(r.v, code[i].dflt)),
                               r.table, req, res, now)
             Found(extractor) ==
                 IF ~IsFunction(extractor) THEN Thrown("TypeError", table)
                 ELSE Called(Call(extractor, table, req, res, code[i].arg, now))
         IN  Found(Get(table, code[i].name))

\* The escape character, by name.
ESC == "\\x1b"

\* The dev format, src/index.js:182-202, for a response without a
\* Content-Length header: parseInt(undefined) is NaN and `len` is ''.
dev(req, res, now) ==
    LET code == res.statusCode.n
        color == IF code >= 500 THEN 31
                 ELSE IF code >= 400 THEN 33
                 ELSE IF code >= 300 THEN 36
                 ELSE 32
    IN  ESC \o "[90m" \o ToStr(req.method) \o " " \o ToStr(OrElse(req.originalUrl, req.url))
            \o " " \o ESC \o "[" \o NatToString(color) \o "m" \o ToStr(res.statusCode)
            \o " " \o ESC \o "[90m" \o ToStr(Num(now - req._startTime.n)) \o "ms" \o ""
            \o ESC \o "[0m"

\* fmt(exports, req, res)
CallFormat(fmt, table, req, res, now) ==
    CASE fmt.f = "compiled" -> Evaluate(fmt.code, 1, "", table, req, res, now)
      [] fmt.f = "dev" -> Returned(Str(dev(req, res, now)), table)
      [] fmt.f = "returning" -> Returned(fmt.v, table)
      [] fmt.f = "throwing" -> Thrown("Error", table)
      \* A token's extractor used as the render function is called with
      \* (exports, req, res): its `req` is exports, its third argument res.
      [] fmt.f = "field" -> Returned(Str("<" \o ToStr(ResponseObject) \o ">"), table)
      [] fmt.f = "method" -> Returned(Get(table, "method"), table)


(***************************************************************************)
(* State.                                                                   *)
(***************************************************************************)
VARIABLES
    exports,    \* the table of tokens and formats
    mw,         \* the middleware logger(options) returned, once made
    cyc,        \* the request/response cycles, in order of arrival
    sink,       \* the writes the destination stream received, in order
    buf,        \* `buf`, the lines the buffering stream holds
    tpl,        \* a template handed to compile() on its own
    fn,         \* what compile(tpl) came to
    out         \* what calling that function came to

vars == <<exports, mw, cyc, sink, buf, tpl, fn, out>>

Times == 0..MaxTime

(***************************************************************************)
(* logger(options), src/index.js:30-113.                                    *)
(***************************************************************************)
defaultBufferDuration == 1000

\* The skip predicate of morgan's documentation:
\* function (req, res) { return res.statusCode < 400 }
SkipBelow400 == Fn("statusCode < 400")

\* A logRequest that never asks skip: a fault the skip property must catch.
SkipIgnored(skip, req, res) == FALSE

\* skip(req, res), as `if` tests it.
CallSkip(skip, req, res) ==
    CASE skip.f = "returning" -> Truthy(skip.v)
      [] skip.f = "statusCode < 400" -> res.statusCode.n < 400

\* exports[options.format] || options.format || exports.default
ResolveFormat(table, given) ==
    OrElse(OrElse(Get(table, ToStr(given)), given), Get(table, "default"))

\* The options part of logger(options): the closure the middleware runs in,
\* or the throw of compile().
logger(options, table) ==
    LET Closure(fmt) ==
            IF fmt.threw THEN [made |-> FALSE, threw |-> TRUE]
            ELSE [made |-> TRUE,
                  immediate |-> options.immediate,
                  skip |-> OrElse(options.skip, Returning(Bool(FALSE))),
                  fmt |-> fmt.v,
                  buffered |-> Truthy(options.buffer),
                  interval |-> IF options.buffer.t = "number" THEN options.buffer.n
                               ELSE defaultBufferDuration]
        Compiled(resolved) ==
            IF IsFunction(resolved) THEN Normal(resolved) ELSE compile(resolved.cs)
    IN  Closure(Compiled(ResolveFormat(table, options.format)))

NoLogger == [made |-> FALSE, threw |-> FALSE]

\* A stream that puts each line before the ones it has: a fault the property
\* of the order of writes must catch.
WriteFirst(m, w, str) ==
    IF m.buffered THEN [w EXCEPT !.buf = <<str>> \o @]
    ELSE [w EXCEPT !.sink = <<str>> \o @]

\* stream.write(str): the buffering stream pushes, the destination receives.
Write(m, w, str) ==
    IF m.buffered THEN [w EXCEPT !.buf = Append(@, str)]
    ELSE [w EXCEPT !.sink = Append(@, str)]

\* buf.join('')
RECURSIVE JoinLines(_)
JoinLines(lines) == IF lines = <<>> THEN "" ELSE Head(lines) \o JoinLines(Tail(lines))

\* An interval callback that writes even when it has no line: a fault the
\* property of the lines' delivery must catch.
FlushAlways(s, b) == [sink |-> Append(s, JoinLines(b)), buf |-> <<>>]

\* An interval callback that writes the lines but keeps them: a fault the
\* batching property must catch.
FlushKeeping(s, b) ==
    IF Len(b) # 0 THEN [sink |-> Append(s, JoinLines(b)), buf |-> b]
    ELSE [sink |-> s, buf |-> b]

\* The interval callback, src/index.js:64-69: [sink, buf] after it.
Flush(s, b) ==
    IF Len(b) # 0 THEN [sink |-> Append(s, JoinLines(b)), buf |-> <<>>]
    ELSE [sink |-> s, buf |-> b]

\* A logRequest that takes only its 'finish' listener off: a fault the
\* at-most-once property must catch.
RemoveFinishOnly(listeners) == listeners \ {"finish"}

\* res.removeListener('finish', logRequest); res.removeListener('close', logRequest)
RemoveListeners(listeners) == (listeners \ {"finish"}) \ {"close"}

\* null === line, which lets undefined through: a fault the suppression
\* property must catch.
StrictlyNull(line) == line.t = "null"

\* null == line
Suppressed(line) == line.t \in {"null", "undefined"}

\* line + '\n'
Terminated(line) == ToStr(line) \o "\n"

\* A middleware that always waits for the response: a fault the immediate
\* property must catch.
AlwaysDeferred(m) == FALSE

\* What the middleware does first when options.immediate is set.
Immediate(m) == Truthy(m.immediate)

\* One call of logRequest for the cycle of world w = [cy, table, sink, buf]:
\* the world after it and whether it threw.  Each call is noted in cy.calls
\* with what it saw: how it was triggered, whether next() had been called
\* (st), the response at that moment, and how far it went.
logRequest(m, w, trigger, now) ==
    LET off == [w EXCEPT !.cy.listeners = RemoveListeners(@)]
        req == w.cy.req
        res == w.cy.res
        seen == [trigger |-> trigger, st |-> w.cy.st, res |-> res]
        note(world, how) ==
            [world EXCEPT !.cy.calls = Append(@, seen @@ how)]
        Rendered(line) ==
            IF line.threw
            THEN [threw |-> TRUE,
                  w |-> note([off EXCEPT !.table = line.table],
                             [skipped |-> FALSE, rendered |-> TRUE, wrote |-> FALSE,
                              line |-> Throw(line.e)])]
            ELSE IF Suppressed(line.v)
            THEN [threw |-> FALSE,
                  w |-> note([off EXCEPT !.table = line.table],
                             [skipped |-> FALSE, rendered |-> TRUE, wrote |-> FALSE,
                              line |-> Normal(line.v)])]
            ELSE [threw |-> FALSE,
                  w |-> note(Write(m, [off EXCEPT !.table = line.table], Terminated(line.v)),
                             [skipped |-> FALSE, rendered |-> TRUE, wrote |-> TRUE,
                              line |-> Normal(line.v)])]
    IN  IF CallSkip(m.skip, req, res)
        THEN [threw |-> FALSE,
              w |-> note(off, [skipped |-> TRUE, rendered |-> FALSE, wrote |-> FALSE])]
        ELSE Rendered(CallFormat(m.fmt, w.table, req, res, now))

\* res.on('finish', logRequest); res.on('close', logRequest)
Subscribe(w) == [w EXCEPT !.cy.listeners = @ \cup {"finish", "close"}]

\* A cycle as the middleware finds it: the request and response of the server.
\* `uncaught` counts the throws that left a listener during an emit, `ends`
\* keeps the chunks the application called res.end with, `arrived` the
\* request as it was at entry.
NewCycle(req) ==
    [st |-> "entering", req |-> req, res |-> NewResponse, listeners |-> {},
     finish |-> 0, close |-> 0, calls |-> <<>>, uncaught |-> 0, ends |-> <<>>,
     arrived |-> req]

\* The middleware, src/index.js:79-112, on a request that arrives at `now`:
\* the world after it.  A throw of logRequest leaves it before `res.end` is
\* replaced and before next() is called (st = "failed").
middleware(m, w, now) ==
    LET stamped == [w EXCEPT !.cy.req._startTime = Num(now),
                             !.cy.req._remoteAddress = w.cy.req.socketAddress]
        Rest(logged) ==
            IF logged.threw THEN [logged.w EXCEPT !.cy.st = "failed"]
            ELSE [logged.w EXCEPT !.cy.res.end = "proxy", !.cy.st = "active"]
    IN  Rest(IF Immediate(m) THEN logRequest(m, stamped, "immediate", now)
             ELSE [threw |-> FALSE, w |-> Subscribe(stamped)])

\* res.emit(event): logRequest runs if it listens for the event.
emit(m, w, event, now) ==
    LET counted == [w EXCEPT !.cy[event] = @ + 1]
        Listened(r) == IF r.threw THEN [r.w EXCEPT !.cy.uncaught = @ + 1] ELSE r.w
    IN  IF event \notin w.cy.listeners THEN counted
        ELSE Listened(logRequest(m, counted, event, now))

\* A proxy that stays in place and keeps every chunk: a fault the property
\* of the captured body must catch.
endKeepingProxy(res, chunk) ==
    [res EXCEPT !._body = chunk, !.headersSent = TRUE, !.finished = TRUE,
                !.sent = Append(@, chunk)]

\* res.end(chunk, encoding), src/index.js:104-109 when the proxy is in place:
\* it keeps the chunk, puts the original back and calls it; the original
\* sends the headers and finishes the response.  (The encoding goes where
\* the chunk goes and is left out.)
end(res, chunk) ==
    LET kept == IF res.end = "proxy" THEN [res EXCEPT !._body = chunk, !.end = "original"]
                ELSE res
    IN  [kept EXCEPT !.headersSent = TRUE, !.finished = TRUE, !.sent = Append(@, chunk)]

(***************************************************************************)
(* The actions.                                                              *)
(***************************************************************************)
World(c) == [cy |-> c, table |-> exports, sink |-> sink, buf |-> buf]

\* The world w put back, its cycle at place i of cyc.
Becomes(w, i) ==
    /\ cyc' = [j \in 1..(IF i > Len(cyc) THEN i ELSE Len(cyc))
                 |-> IF j = i THEN w.cy ELSE cyc[j]]
    /\ exports' = w.table
    /\ sink' = w.sink
    /\ buf' = w.buf

\* The stream after the interval callback.
Flushed(after) == sink' = after.sink /\ buf' = after.buf

\* What the host may ask for.
ExampleFormat ==
    <<"{", "\"", "m", "\"", ":", "\"", ":", "m", "e", "t", "h", "o", "d", "\"", ",", "\"", "s",
      "\"", ":", "\"", ":", "s", "t", "a", "t", "u", "s", "\"", "}">>

\* A template that names a token nobody registered.
UnknownTokenFormat ==
    <<"a", ":", "n", "o", "p", "e">>

FormatOptions ==
    {Text(ExampleFormat), Text(UnknownTokenFormat), Returning(Null), Returning(Undefined),
     Returning(Str("line"))}

Options ==
    [format : FormatOptions,
     immediate : {Undefined, Bool(TRUE)},
     skip : {Undefined, Returning(Bool(TRUE)), SkipBelow400},
     buffer : {Undefined, Bool(TRUE)}]

\* The host calls logger(options).
Logger(options) ==
    /\ ~mw.made /\ ~mw.threw
    /\ mw' = logger(options, exports)
    /\ UNCHANGED <<exports, cyc, sink, buf, tpl, fn, out>>

\* A request arrives and the server calls the middleware with it; `limit`
\* bounds the cycles a specification follows.
Middleware(req, now, limit) ==
    /\ mw.made
    /\ Len(cyc) < limit
    /\ Becomes(middleware(mw, World(NewCycle(req)), now), Len(cyc) + 1)
    /\ UNCHANGED <<mw, tpl, fn, out>>

StatusCodes == {Num(200), Num(404)}

\* The application sets res.statusCode before the headers are sent.
SetStatus(i, code) ==
    /\ cyc[i].st = "active"
    /\ ~cyc[i].res.headersSent
    /\ cyc[i].res.statusCode # code
    /\ cyc' = [cyc EXCEPT ![i].res.statusCode = code]
    /\ UNCHANGED <<exports, mw, sink, buf, tpl, fn, out>>

Chunks == {Undefined, Text(<<"o", "k">>)}

\* The application calls res.end(chunk), at most `limit` times.
End(i, chunk, limit) ==
    /\ cyc[i].st = "active"
    /\ Len(cyc[i].ends) < limit
    /\ cyc' = [cyc EXCEPT ![i].res = end(@, chunk), ![i].ends = Append(@, chunk)]
    /\ UNCHANGED <<exports, mw, sink, buf, tpl, fn, out>>

\* The response emits 'finish': after `end`, at most `limit` times.
Finish(i, now, limit) ==
    /\ cyc[i].st = "active"
    /\ cyc[i].res.finished
    /\ cyc[i].finish < limit
    /\ Becomes(emit(mw, World(cyc[i]), "finish", now), i)
    /\ UNCHANGED <<mw, tpl, fn, out>>

\* The response emits 'close': the connection went away, at any moment.
Close(i, now, limit) ==
    /\ cyc[i].st = "active"
    /\ cyc[i].close < limit
    /\ Becomes(emit(mw, World(cyc[i]), "close", now), i)
    /\ UNCHANGED <<mw, tpl, fn, out>>

\* The interval timer of the buffering stream fires.
Timer ==
    /\ mw.made /\ mw.buffered
    /\ Flushed(Flush(sink, buf))
    /\ UNCHANGED <<exports, mw, cyc, tpl, fn, out>>

Init ==
    /\ exports = ModuleExports
    /\ mw = NoLogger
    /\ cyc = <<>>
    /\ sink = <<>>
    /\ buf = <<>>
    /\ tpl = <<>>
    /\ fn = Undefined
    /\ out = Undefined

\* One cycle through a middleware made with any of the options; the events
\* of its response are emitted up to MaxFire times each.
Next ==
    \/ \E options \in Options : Logger(options)
    \/ \E req \in Requests, now \in Times : Middleware(req, now, 1)
    \/ \E i \in 1..Len(cyc), code \in StatusCodes : SetStatus(i, code)
    \/ \E i \in 1..Len(cyc), chunk \in Chunks : End(i, chunk, 1)
    \/ \E i \in 1..Len(cyc), now \in Times : Finish(i, now, MaxFire)
    \/ \E i \in 1..Len(cyc), now \in Times : Close(i, now, MaxFire)
    \/ Timer

Spec == Init /\ [][Next]_vars


(***************************************************************************)
(* The buffering stream on its own: up to NCycles cycles through a          *)
(* middleware that buffers, each response ending once and emitting each     *)
(* event at most once.                                                      *)
(***************************************************************************)
BatchOptions ==
    [format : {Text(ExampleFormat)},
     immediate : {Undefined, Bool(TRUE)},
     skip : {Undefined},
     buffer : {Bool(TRUE), Num(500)}]

NextBatch ==
    \/ \E options \in BatchOptions : Logger(options)
    \/ \E req \in Requests : Middleware(req, 0, NCycles)
    \/ \E i \in 1..Len(cyc) : End(i, Undefined, 1)
    \/ \E i \in 1..Len(cyc) : Finish(i, 0, 1)
    \/ \E i \in 1..Len(cyc) : Close(i, 0, 1)
    \/ Timer

SpecBatch == Init /\ [][NextBatch]_vars

\* Lines pushed and timer ticks in any interleaving, the timer firing again
\* and again, as setInterval makes it.
LiveOptions ==
    [format : {Text(ExampleFormat)},
     immediate : {Undefined, Bool(TRUE)},
     skip : {Undefined},
     buffer : {Bool(TRUE)}]

NextBatchLive ==
    \/ \E options \in LiveOptions : Logger(options)
    \/ \E req \in Requests : Middleware(req, 0, NCycles)
    \/ \E i \in 1..Len(cyc) : End(i, Undefined, 1)
    \/ \E i \in 1..Len(cyc) : Finish(i, 0, 1)
    \/ Timer

SpecBatchLive == Init /\ [][NextBatchLive]_vars /\ WF_vars(Timer)

(***************************************************************************)
(* compile() on its own: a template drawn from the strings of at most       *)
(* MaxLen characters over Sigma, a token "aa" the host may register with    *)
(* any of the extractors, the compilation, and calls of its result.         *)
(***************************************************************************)
Sigma == {"a", ":", QUOTE, BSLASH, LF}

Templates == UNION {[1..n -> Sigma] : n \in 0..MaxLen}

ExtractorOutputs ==
    {Undefined, Null, Str(""), Str("v"), Num(0), Num(7), Bool(FALSE), Bool(TRUE)}

Extractors == {Returning(v) : v \in ExtractorOutputs} \cup {Throwing}

\* The request and response a compiled function is called with.
SampleRequest ==
    [GetRequest EXCEPT !._startTime = Num(0), !._remoteAddress = GetRequest.socketAddress]

InitCompile ==
    /\ exports = ModuleExports
    /\ mw = NoLogger
    /\ cyc = <<>>
    /\ sink = <<>>
    /\ buf = <<>>
    /\ tpl \in Templates
    /\ fn = Undefined
    /\ out = Undefined

\* The host registers a token.
Token(name, extractor) ==
    /\ Get(exports, name) # extractor
    /\ exports' = token(exports, name, extractor)
    /\ UNCHANGED <<mw, cyc, sink, buf, tpl, fn, out>>

\* compile(tpl)
Compile ==
    /\ fn = Undefined
    /\ fn' = compile(tpl)
    /\ UNCHANGED <<exports, mw, cyc, sink, buf, tpl, out>>

\* The compiled function is called: `out` keeps the table it was given and
\* what the call came to.
Render ==
    /\ fn # Undefined
    /\ ~fn.threw
    /\ out' = [tokens |-> exports,
               result |-> CallFormat(fn.v, exports, SampleRequest, NewResponse, 0)]
    /\ UNCHANGED <<exports, mw, cyc, sink, buf, tpl, fn>>

NextCompile ==
    \/ \E extractor \in Extractors : Token("aa", extractor)
    \/ Compile
    \/ Render

SpecCompile == InitCompile /\ [][NextCompile]_vars

(***************************************************************************)
(* The table over time: the host registers tokens and formats before and    *)
(* after it makes a middleware, and up to NCycles requests go through the   *)
(* middleware, each rendered at entry.                                      *)
(***************************************************************************)
\* A template with a token reference that has an argument and one without.
ArgFormat == <<":", "a", "a", "[", "k", "]", ":", "a", "a">>

RegistryFormatOptions ==
    {Undefined, Text(ArgFormat), Text(<<"a", "a">>), Text(<<"f", "f">>), Returning(Str("h"))}

RegistryOptions ==
    [format : RegistryFormatOptions,
     immediate : {Bool(TRUE)},
     skip : {Undefined},
     buffer : {Undefined}]

RegistryExtractors == {Returning(Str("v")), Field}

RegistryFormats == {Text(<<"f", ":", "a", "a">>), Returning(Str("g"))}

\* The host registers a format.
Format(name, fmt) ==
    /\ Get(exports, name) # fmt
    /\ exports' = format(exports, name, fmt)
    /\ UNCHANGED <<mw, cyc, sink, buf, tpl, fn, out>>

NextRegistry ==
    \/ \E name \in {"aa", "default"}, extractor \in RegistryExtractors : Token(name, extractor)
    \/ \E name \in {"ff", "aa"}, fmt \in RegistryFormats : Format(name, fmt)
    \/ \E options \in RegistryOptions : Logger(options)
    \/ Middleware(GetRequest, 0, NCycles)

SpecRegistry == Init /\ [][NextRegistry]_vars

(***************************************************************************)
(* One cycle seen closely: the socket's address may change after entry,     *)
(* the application may call res.end twice, and the line shows the address   *)
(* or the captured body.                                                    *)
(***************************************************************************)
AddressFormat == <<":", "r", "e", "m", "o", "t", "e", "-", "a", "d", "d", "r">>

BodyFormat == <<":", "r", "e", "s", "-", "b", "o", "d", "y">>

CycleOptions ==
    [format : {Text(AddressFormat), Text(BodyFormat)},
     immediate : {Undefined, Bool(TRUE)},
     skip : {Undefined},
     buffer : {Undefined}]

\* A request the framework gave a client address, and one whose socket has
\* no address at entry.
IpRequest == [GetRequest EXCEPT !.ip = Str("192.0.2.1")]

NoAddressRequest == [GetRequest EXCEPT !.socketAddress = Undefined]

CycleRequests == {GetRequest, IpRequest, NoAddressRequest}

SocketAddresses == {Undefined, Str("10.9.9.9")}

\* The socket of the request gets another address, or loses it.
SocketChange(i, address) ==
    /\ cyc[i].st = "active"
    /\ cyc[i].req.socketAddress # address
    /\ cyc' = [cyc EXCEPT ![i].req.socketAddress = address]
    /\ UNCHANGED <<exports, mw, sink, buf, tpl, fn, out>>

NextCycle ==
    \/ \E options \in CycleOptions : Logger(options)
    \/ \E req \in CycleRequests : Middleware(req, 0, 1)
    \/ \E i \in 1..Len(cyc), address \in SocketAddresses : SocketChange(i, address)
    \/ \E i \in 1..Len(cyc), chunk \in Chunks : End(i, chunk, 2)
    \/ \E i \in 1..Len(cyc) : Finish(i, 0, 1)
    \/ \E i \in 1..Len(cyc) : Close(i, 0, 1)

SpecCycle == Init /\ [][NextCycle]_vars

(***************************************************************************)
(* Overlapping cycles: up to NCycles requests through one deferred          *)
(* middleware that writes directly, their responses answered and finished,  *)
(* or closed, in any order.                                                 *)
(***************************************************************************)
OverlapOptions ==
    [format : {Text(ExampleFormat), Returning(Null)},
     immediate : {Undefined},
     skip : {Undefined, SkipBelow400},
     buffer : {Undefined}]

NextOverlap ==
    \/ \E options \in OverlapOptions : Logger(options)
    \/ \E req \in Requests : Middleware(req, 0, NCycles)
    \/ \E i \in 1..Len(cyc) : SetStatus(i, Num(404))
    \/ \E i \in 1..Len(cyc) : End(i, Undefined, 1)
    \/ \E i \in 1..Len(cyc) : Finish(i, 0, 1)
    \/ \E i \in 1..Len(cyc) : Close(i, 0, 1)

SpecOverlap == Init /\ [][NextOverlap]_vars

(***************************************************************************)
(* The properties.  A call of logRequest is a record of cyc[i].calls; the   *)
(* lines handed to the stream are those of sink and buf together.           *)
(***************************************************************************)
Deferred == mw.made /\ ~Truthy(mw.immediate)

Calls(i) == 1..Len(cyc[i].calls)

Renders(i) == Cardinality({k \in Calls(i) : cyc[i].calls[k].rendered})

\* The lines handed to stream.write so far, flushed or not.
Handed == Len(sink) + Len(buf)

\* C1: in deferred mode, however often 'finish' and 'close' are emitted on
\* the response of a cycle and in whatever order, logRequest runs at most
\* once for it, so the render function is called at most once and at most
\* one line is handed to the stream; the call that ran left no listener.
C1_AtMostOneRender ==
    Deferred =>
        /\ Handed <= Len(cyc)
        /\ \A i \in 1..Len(cyc) :
               /\ Len(cyc[i].calls) <= 1
               /\ Renders(i) <= 1
               /\ (cyc[i].calls # <<>> => cyc[i].listeners = {})

\* A deferred cycle whose response emitted both events, three emissions or
\* more in all, with one render and one line at the destination.
C1_Witness ==
    /\ Deferred /\ ~mw.buffered
    /\ Len(cyc) = 1
    /\ cyc[1].finish >= 1 /\ cyc[1].close >= 1
    /\ cyc[1].finish + cyc[1].close >= 3
    /\ Renders(1) = 1
    /\ Len(sink) = 1

\* The line of the example format for a method and the text of a status.
ExampleLine(method, code) == "{\"m\":\"" \o method \o "\",\"s\":\"" \o code \o "\"}"

UsesExample == mw.made /\ mw.fmt = compile(ExampleFormat).v

\* C2, as the specification has it: whenever the render function is called
\* the headers of the response have been sent, whatever the options.
C2_AsStated ==
    \A i \in 1..Len(cyc) : \A k \in Calls(i) :
        cyc[i].calls[k].rendered => cyc[i].calls[k].res.headersSent

\* C2, as the code has it: a render that 'finish' triggers finds the headers
\* sent and the status token gives the status code; a render at entry
\* (immediate) finds them not sent, as may one that 'close' triggers, and
\* the status token then gives its missing value, a dash in the line.
C2_StatusFollowsHeaders ==
    \A i \in 1..Len(cyc) : \A k \in Calls(i) :
        cyc[i].calls[k].rendered =>
            /\ (cyc[i].calls[k].trigger = "finish" => cyc[i].calls[k].res.headersSent)
            /\ (cyc[i].calls[k].trigger = "immediate" => ~cyc[i].calls[k].res.headersSent)
            /\ (UsesExample =>
                  cyc[i].calls[k].line =
                      Normal(Str(ExampleLine(cyc[i].req.method.s,
                          IF cyc[i].calls[k].res.headersSent
                          THEN NatToString(cyc[i].calls[k].res.statusCode.n)
                          ELSE "-"))))

\* A render that 'finish' triggered, the headers sent, the status in the line.
C2_Witness ==
    /\ Deferred /\ UsesExample /\ ~mw.buffered
    /\ Len(cyc) = 1 /\ Len(cyc[1].calls) = 1
    /\ cyc[1].calls[1].trigger = "finish"
    /\ cyc[1].calls[1].rendered
    /\ cyc[1].calls[1].res.headersSent
    /\ sink = <<ExampleLine("POST", "200") \o "\n">>

\* skip(req, res) is true of the response as a call of logRequest found it.
SkipHolds(res) ==
    \/ mw.skip = Returning(Bool(TRUE))
    \/ mw.skip = SkipBelow400 /\ res.statusCode.n < 400

\* C3: when skip is true of the request and the response at the moment a
\* cycle is triggered, the render function is not called for that cycle and
\* nothing is handed to the stream, then or after any later emission.
C3_SkipWritesNothing ==
    \A i \in 1..Len(cyc) : \A k \in Calls(i) :
        SkipHolds(cyc[i].calls[k].res) =>
            /\ ~cyc[i].calls[k].rendered
            /\ Len(cyc[i].calls) = 1
            /\ Renders(i) = 0
            /\ sink = <<>> /\ buf = <<>>

\* A cycle skipped on its status at trigger time, events emitted after it.
C3_Witness ==
    /\ Deferred /\ mw.skip = SkipBelow400
    /\ Len(cyc) = 1 /\ Len(cyc[1].calls) = 1
    /\ cyc[1].calls[1].skipped
    /\ cyc[1].calls[1].res.headersSent
    /\ cyc[1].finish >= 2 /\ cyc[1].close >= 1
    /\ sink = <<>> /\ buf = <<>>

\* C4, as the specification has it: with immediate set the render function
\* is called exactly once in every cycle.
C4_AsStated ==
    (mw.made /\ Truthy(mw.immediate)) => \A i \in 1..Len(cyc) : Renders(i) = 1

\* C4, as the code has it: with immediate set logRequest runs exactly once in
\* a cycle, inside the middleware before next() and on the response as it
\* arrived; it calls the render function unless skip is true at that moment;
\* no later 'finish' or 'close' runs it again.
C4_ImmediateOnce ==
    (mw.made /\ Truthy(mw.immediate)) =>
        /\ Handed <= Len(cyc)
        /\ \A i \in 1..Len(cyc) :
               /\ Len(cyc[i].calls) = 1
               /\ cyc[i].calls[1].trigger = "immediate"
               /\ cyc[i].calls[1].st = "entering"
               /\ cyc[i].calls[1].res = NewResponse
               /\ cyc[i].calls[1].rendered = ~SkipHolds(NewResponse)
               /\ cyc[i].listeners = {}

\* An immediate cycle rendered at entry, its response ended since and both
\* events emitted, still with the one call and the one line.
C4_Witness ==
    /\ mw.made /\ Truthy(mw.immediate) /\ ~mw.buffered
    /\ Len(cyc) = 1 /\ Len(cyc[1].calls) = 1
    /\ cyc[1].calls[1].rendered
    /\ cyc[1].res.finished
    /\ cyc[1].finish >= 1 /\ cyc[1].close >= 1
    /\ Len(sink) = 1

\* C5: when logRequest was not skipped and the render function returned,
\* nothing is handed to the stream if it returned null or undefined, and
\* otherwise one string is: what it returned, then one line feed.
C5_LineThenNewline ==
    \A i \in 1..Len(cyc) : \A k \in Calls(i) :
        (cyc[i].calls[k].rendered /\ ~cyc[i].calls[k].line.threw) =>
            IF cyc[i].calls[k].line.v.t \in {"null", "undefined"}
            THEN sink = <<>> /\ buf = <<>>
            ELSE sink \o buf = <<ToStr(cyc[i].calls[k].line.v) \o "\n">>

\* A render function's string at the destination with its line feed.
C5_Witness ==
    /\ mw.made /\ mw.fmt = Returning(Str("line"))
    /\ Len(cyc) = 1 /\ Renders(1) = 1
    /\ sink = <<"line\n">> /\ buf = <<>>

\* C6: with buffering, the destination is written to only by the interval
\* callback; a callback that finds N >= 1 lines buffered does one write, of
\* those lines joined in the order they were pushed, and leaves the buffer
\* empty; between callbacks a line handed to the stream is only pushed.
C6_OneWritePerTick ==
    [][(mw.made /\ mw.buffered) =>
          /\ (sink' # sink =>
                /\ Timer
                /\ buf # <<>>
                /\ sink' = Append(sink, JoinLines(buf))
                /\ buf' = <<>>)
          /\ ((Timer /\ buf # <<>>) => Len(sink') = Len(sink) + 1)
          /\ (sink' = sink =>
                \/ buf' = buf
                \/ Len(buf') = Len(buf) + 1 /\ SubSeq(buf', 1, Len(buf)) = buf)]_vars

\* Two cycles' lines at the destination in one write, the buffer empty.
C6_Witness ==
    /\ mw.made /\ mw.buffered
    /\ Len(cyc) = 2
    /\ buf = <<>>
    /\ sink = <<ExampleLine("GET", "200") \o "\n" \o ExampleLine("POST", "200") \o "\n">>

\* C7, as the specification has it: the template ":aa", with "aa" registered
\* to return v, renders String(v) for every v that is not null or undefined,
\* the empty string, 0 and false among them, and "-" for null and undefined.
C7_AsStated ==
    (/\ tpl = <<":", "a", "a">>
     /\ out # Undefined
     /\ Get(out.tokens, "aa") \in {Returning(v) : v \in ExtractorOutputs}) =>
        /\ ~out.result.threw
        /\ out.result.v =
               Str(IF Get(out.tokens, "aa").v.t \in {"null", "undefined"} THEN "-"
                   ELSE ToStr(Get(out.tokens, "aa").v))

\* C8, as the specification has it: a template that names a token nobody
\* registered still renders, with "-" where the token stands, and nothing is
\* thrown out of the render function, out of logRequest or into the
\* response's emit.
C8_AsStated ==
    \A i \in 1..Len(cyc) :
        /\ cyc[i].st # "failed"
        /\ cyc[i].uncaught = 0
        /\ \A k \in Calls(i) :
               cyc[i].calls[k].rendered =>
                   /\ ~cyc[i].calls[k].line.threw
                   /\ (mw.fmt = compile(UnknownTokenFormat).v =>
                          cyc[i].calls[k].line.v = Str("a-"))

\* C9, as the specification has it: a template without a token reference,
\* over an alphabet with the double quote, the backslash and the line feed,
\* compiles, and the compiled function returns the template itself.
C9_AsStated ==
    ~HasTokenReference(tpl) =>
        /\ (fn # Undefined => ~fn.threw)
        /\ (out # Undefined =>
              /\ ~out.result.threw
              /\ out.result.v = Str(Join(tpl)))

\* The example of C10: the example format, deferred, a GET request whose
\* response was ended with status 404 and whose 'finish' ran logRequest.
ExampleCase(i) ==
    /\ Deferred /\ UsesExample
    /\ cyc[i].req.method = Str("GET")
    /\ Len(cyc[i].calls) = 1
    /\ cyc[i].calls[1].trigger = "finish"
    /\ cyc[i].calls[1].res.statusCode = Num(404)
    /\ ~cyc[i].calls[1].skipped

\* C10, as the specification has it: the line is {"m":"GET","s":404}, the
\* status without quotes around it.
C10_AsStated ==
    \A i \in 1..Len(cyc) :
        ExampleCase(i) => sink \o buf = <<"{\"m\":\"GET\",\"s\":404}\n">>

\* C10, as the code has it: the line is {"m":"GET","s":"404"} and a line
\* feed; the quotes the template has around :status stay around the status.
C10_QuotedStatus ==
    \A i \in 1..Len(cyc) :
        ExampleCase(i) => sink \o buf = <<"{\"m\":\"GET\",\"s\":\"404\"}\n">>

\* The example's line at the destination.
C10_Witness ==
    /\ Len(cyc) = 1 /\ ExampleCase(1)
    /\ ~mw.buffered
    /\ sink = <<"{\"m\":\"GET\",\"s\":\"404\"}\n">>

\* The call of logRequest the cycle that this step begins has made.
EntryCall == cyc'[Len(cyc')].calls[1]

Renders_ArgFormat == mw.made /\ mw.fmt = compile(ArgFormat).v

AsRenderFunction(fmt) == IF IsFunction(fmt) THEN fmt ELSE compile(fmt.cs).v

StatedFormat(table, given) ==
    IF given = Undefined THEN AsRenderFunction(Text(DefaultFormat))
    ELSE IF IsFunction(given) THEN given
    ELSE IF Get(table, given.s) \in RegistryFormats THEN AsRenderFunction(Get(table, given.s))
    ELSE AsRenderFunction(given)

\* C12, as the specification has it: logger(options) fixes the render
\* function, as StatedFormat gives it from the format option and the formats
\* registered at that moment, and no later registration changes it.
C12_AsStated ==
    [][/\ (mw.made => mw' = mw)
       /\ \A options \in RegistryOptions :
              Logger(options) =>
                  /\ mw'.made
                  /\ mw'.fmt = StatedFormat(exports, options.format)]_vars

\* C13, as the specification has it: with "aa" registered to show its third
\* argument, ":aa[k]:aa" renders "<k><>": the text between the brackets for
\* the first reference, the empty string for the second, which has none.
C13_AsStated ==
    [][(Renders_ArgFormat /\ Len(cyc') > Len(cyc) /\ Get(exports, "aa") = Field)
          => EntryCall.line = Normal(Str("<k><>"))]_vars

\* C14, as the specification has it: registering a token changes what no
\* format option resolves to, among them the name itself and the default;
\* registering a format leaves the extractor of the token of that name as
\* it was; and a format option that is a token's name is not resolved to the
\* token's extractor.
C14_AsStated ==
    [][/\ \A name \in {"aa", "default"}, extractor \in RegistryExtractors :
              Token(name, extractor) =>
                  \A options \in RegistryOptions :
                      logger(options, exports') = logger(options, exports)
       /\ \A name \in {"ff", "aa"}, fmt \in RegistryFormats :
              (Format(name, fmt) /\ Get(exports, name) \in RegistryExtractors) =>
                  Get(exports', name) = Get(exports, name)
       /\ \A options \in RegistryOptions :
              (/\ Logger(options)
               /\ options.format # Undefined
               /\ ~IsFunction(options.format)
               /\ Get(exports, options.format.s) \in RegistryExtractors) =>
                  mw'.fmt # Get(exports, options.format.s)]_vars

\* C15: once the middleware has run, the first res.end(chunk) keeps the chunk
\* as res._body, puts the original end back and calls it with the chunk; a
\* later res.end goes to the original and leaves res._body alone; every call
\* of res.end reaches the original once, with its chunk.  A logRequest that
\* 'finish' ran found the first chunk in res._body.
C15_FirstEndCaptured ==
    \A i \in 1..Len(cyc) :
        cyc[i].st = "active" =>
            /\ cyc[i].res.sent = cyc[i].ends
            /\ (cyc[i].ends = <<>> =>
                  cyc[i].res.end = "proxy" /\ cyc[i].res._body = Undefined)
            /\ (cyc[i].ends # <<>> =>
                  cyc[i].res.end = "original" /\ cyc[i].res._body = cyc[i].ends[1])
            /\ \A k \in Calls(i) :
                   cyc[i].calls[k].trigger = "finish" =>
                       /\ cyc[i].calls[k].res.sent # <<>>
                       /\ cyc[i].calls[k].res._body = cyc[i].ends[1]

\* res.end called with a body and then again without: the body is kept, and
\* the line 'finish' produced shows it.
C15_Witness ==
    /\ Deferred /\ mw.fmt = compile(BodyFormat).v
    /\ Len(cyc) = 1
    /\ cyc[1].ends = <<Text(<<"o", "k">>), Undefined>>
    /\ cyc[1].res._body = Text(<<"o", "k">>)
    /\ Len(cyc[1].calls) = 1 /\ cyc[1].calls[1].trigger = "finish"
    /\ sink = <<"ok\n">>

\* C16: for a request without req.ip whose socket had an address at entry,
\* the remote-addr token gives that address in the line, whatever address
\* the socket has when the line is rendered; with req.ip, it gives req.ip.
C16_AddressOfEntry ==
    \A i \in 1..Len(cyc) : \A k \in Calls(i) :
        (mw.fmt = compile(AddressFormat).v /\ cyc[i].calls[k].rendered) =>
            /\ (Truthy(cyc[i].arrived.ip) =>
                  cyc[i].calls[k].line = Normal(Str(cyc[i].arrived.ip.s)))
            /\ (~Truthy(cyc[i].arrived.ip) /\ cyc[i].arrived.socketAddress # Undefined =>
                  cyc[i].calls[k].line = Normal(Str(cyc[i].arrived.socketAddress.s)))

\* A line rendered on 'finish' after the socket's address changed.
C16_Witness ==
    /\ Deferred /\ mw.fmt = compile(AddressFormat).v
    /\ Len(cyc) = 1
    /\ cyc[1].arrived = GetRequest
    /\ cyc[1].req.socketAddress = Str("10.9.9.9")
    /\ Len(cyc[1].calls) = 1 /\ cyc[1].calls[1].trigger = "finish"
    /\ sink = <<"10.0.0.1\n">>

\* C19, as the specification has it: at every render of ":res-body" the token
\* returns the empty string when res._body holds no chunk (res.end was not
\* called yet, or was called without one), and the escaped body otherwise.
C19_AsStated ==
    \A i \in 1..Len(cyc) : \A k \in Calls(i) :
        (mw.fmt = compile(BodyFormat).v /\ cyc[i].calls[k].rendered) =>
            Extract("res-body", cyc[i].req, cyc[i].calls[k].res, UndefinedText, 0) =
                Normal(IF cyc[i].calls[k].res._body = Undefined THEN Str("")
                       ELSE Str(escape(cyc[i].calls[k].res._body.cs)))

\* The line the example format gives for a request and a response.
ExampleLineOf(req, res) ==
    ExampleLine(req.method.s,
                IF res.headersSent THEN NatToString(res.statusCode.n) ELSE "-")

\* Cycle i's logRequest runs in this step.
Completes(i) == Len(cyc'[i].calls) > Len(cyc[i].calls)

\* C17: with the direct writer and cycles that overlap, a step in which a
\* cycle's completion signal runs logRequest appends to the destination, in
\* that step, the line of that cycle's own request and response, unless skip
\* is true of them or the render returns null, and then it appends nothing;
\* no other step writes.  So the writes are in the order of the signals.
C17_WritesInCompletionOrder ==
    [][(mw.made /\ ~mw.buffered /\ ~Truthy(mw.immediate)) =>
          /\ \A i \in 1..Len(cyc) :
                 Completes(i) =>
                     IF SkipHolds(cyc[i].res) \/ mw.fmt = Returning(Null)
                     THEN sink' = sink
                     ELSE UsesExample =>
                              sink' = Append(sink, ExampleLineOf(cyc[i].req, cyc[i].res) \o "\n")
          /\ (sink' # sink => \E i \in 1..Len(cyc) : Completes(i))]_vars

\* Two cycles, the one that arrived second written first.
C17_Witness ==
    /\ mw.made /\ ~mw.buffered /\ UsesExample
    /\ Len(cyc) = 2
    /\ cyc[1].req.method = Str("GET") /\ cyc[2].req.method = Str("POST")
    /\ cyc[2].res.statusCode = Num(404)
    /\ sink = <<ExampleLine("POST", "404") \o "\n", ExampleLine("GET", "200") \o "\n">>

\* All that the stream was handed, flushed or not, as one string.
Delivered(s, b) == JoinLines(s) \o JoinLines(b)

\* C18: with buffering and the timer firing again and again, a step either
\* pushes one line behind the buffered ones and writes nothing, or is a tick
\* that moves all the buffered lines to the destination as one write, none
\* lost, none twice, their order kept; a tick that finds no line writes
\* nothing; and lines in the buffer are always written in the end.
C18_EveryLineOnce ==
    /\ [][(mw.made /\ mw.buffered) =>
             /\ \/ /\ sink' = sink
                   /\ Len(buf') = Len(buf) + 1
                   /\ SubSeq(buf', 1, Len(buf)) = buf
                \/ /\ buf # <<>> /\ buf' = <<>>
                   /\ Len(sink') = Len(sink) + 1
                   /\ SubSeq(sink', 1, Len(sink)) = sink
                   /\ Delivered(sink', buf') = Delivered(sink, buf)
                \/ sink' = sink /\ buf' = buf
             /\ ((Timer /\ buf = <<>>) => sink' = sink)]_vars
    /\ (buf # <<>>) ~> (buf = <<>>)

\* Two ticks, each with a cycle's line to write.
C18_Witness ==
    /\ mw.made /\ mw.buffered
    /\ Len(cyc) = 2
    /\ buf = <<>>
    /\ sink = <<ExampleLine("GET", "200") \o "\n", ExampleLine("POST", "200") \o "\n">>

=============================================================================
